---- MODULE Spec2Model ----
(***************************************************************************)
(* Travel-Guide chatbot: the turn orchestrator chat_once with its four     *)
(* context adapters and the session history store (src/chat_chain.py), the *)
(* HTTP endpoint (src/main.py) and the Streamlit flow (src/app.py).        *)
(*                                                                         *)
(* Text is a sequence of tokens (strings); the empty text is << >>.  A     *)
(* whitespace token is " " or "\n".  An optional value is a record         *)
(* [some, val].                                                            *)
(***************************************************************************)
EXTENDS Integers, Sequences, FiniteSets, TLC

VARIABLES
    store,      \* _SESSION_STORE: session id -> history (sequence of turns)
    req,        \* the chat_once calls: one record of locals per request
    keys,       \* OPENWEATHER_API_KEY / SERPAPI_API_KEY present at import
    ended,      \* per session: chat_once calls with a city set that have ended
    nCalls,     \* chat_once calls started so far
    fn,         \* the formatting functions on their own: input and result
    ui          \* st.session_state of the Streamlit flow: messages, city

vars == <<store, req, keys, ended, nCalls, fn, ui>>

----------------------------------------------------------------------------
(* Text helpers: str.strip, str.join, slicing                              *)

Whitespace == {" ", "\n"}

IsSpace(c) == c \in Whitespace

RECURSIVE LStrip(_)
LStrip(s) ==
    IF s = << >> THEN s
    ELSE IF IsSpace(Head(s)) THEN LStrip(Tail(s)) ELSE s

RECURSIVE RStrip(_)
RStrip(s) ==
    IF s = << >> THEN s
    ELSE IF IsSpace(s[Len(s)]) THEN RStrip(SubSeq(s, 1, Len(s) - 1)) ELSE s

\* str.strip(): leading and trailing whitespace removed
Strip(s) == RStrip(LStrip(s))

\* sep.join(parts)
RECURSIVE Join(_, _)
Join(parts, sep) ==
    IF parts = << >> THEN << >>
    ELSE IF Len(parts) = 1 THEN parts[1]
    ELSE parts[1] \o sep \o Join(Tail(parts), sep)

Min(a, b) == IF a < b THEN a ELSE b

\* s[:n]
Take(s, n) == SubSeq(s, 1, Min(n, Len(s)))

\* t occurs in s as a contiguous run of tokens
Contains(s, t) ==
    \E i \in 0..(Len(s) - Len(t)) : SubSeq(s, i + 1, i + Len(t)) = t

None == [some |-> FALSE, val |-> << >>]
Some(v) == [some |-> TRUE, val |-> v]

\* (x or ""): None and "" both give ""
OrEmpty(x) == IF x.some THEN x.val ELSE << >>

----------------------------------------------------------------------------
(* Weather formatting: _get_weather_context, the part after the fetch      *)

\* a JSON value read with .get(): absent/null, a number (in tenths), or a
\* value of another type
NoV == [k |-> "none", v |-> 0]
Num(n) == [k |-> "num", v |-> n]
StrV == [k |-> "str", v |-> 0]

\* f"{x:.1f}" of a number given in tenths
Fmt1(x) ==
    IF x < 0 THEN "-" \o ToString((-x) \div 10) \o "." \o ToString((-x) % 10)
    ELSE ToString(x \div 10) \o "." \o ToString(x % 10)

\* f"{x}" of a number given in tenths: 30 prints as 3, 35 as 3.5
FmtNum(x) ==
    IF x % 10 = 0 /\ x >= 0 THEN ToString(x \div 10) ELSE Fmt1(x)

\* f"{v}" of any JSON value
FmtAny(v) == IF v.k = "num" THEN FmtNum(v.v) ELSE "str"

\* an exception inside the second try block (lines 177-206)
WeatherParseRaises(data) ==
    \/ data.shape # "dict"
    \/ data.main.k = "bad"
    \/ data.wind.k = "bad"
    \/ data.sys.k = "bad"
    \/ /\ data.weather # << >>
       /\ \/ data.weather[1].k # "dict"
          \/ ~data.weather[1].has
    \/ /\ data.main.temp.k # "none"
       /\ data.main.feels_like.k # "none"
       /\ \/ data.main.temp.k # "num"
          \/ data.main.feels_like.k # "num"

\* lines 192-195; "*C" stands for the degree sign followed by C
TempClause(city, data) ==
    <<"Current temperature in ">> \o city
        \o (IF data.sys.country # << >> THEN <<", ">> \o data.sys.country ELSE << >>)
        \o <<": ", Fmt1(data.main.temp.v), "*C (feels like ",
             Fmt1(data.main.feels_like.v), "*C).">>

WeatherPartsTempAlone(city, data) ==
    LET desc == IF data.weather # << >> THEN data.weather[1].description ELSE << >>
    IN  (IF data.main.temp.k # "none" THEN <<TempClause(city, data)>> ELSE << >>)
     \o (IF desc # << >> THEN << <<"Conditions: ">> \o desc \o <<".">> >> ELSE << >>)
     \o (IF data.main.humidity.k # "none"
            THEN << <<"Humidity: ", FmtAny(data.main.humidity), "%">> >> ELSE << >>)
     \o (IF data.wind.speed.k # "none"
            THEN << <<"Wind: ", FmtAny(data.wind.speed), " m/s">> >> ELSE << >>)

\* parts, in the order the code appends them
WeatherParts(city, data) ==
    LET desc == IF data.weather # << >> THEN data.weather[1].description ELSE << >>
    IN  (IF data.main.temp.k # "none" /\ data.main.feels_like.k # "none"
            THEN <<TempClause(city, data)>> ELSE << >>)
     \o (IF desc # << >> THEN << <<"Conditions: ">> \o desc \o <<".">> >> ELSE << >>)
     \o (IF data.main.humidity.k # "none"
            THEN << <<"Humidity: ", FmtAny(data.main.humidity), "%">> >> ELSE << >>)
     \o (IF data.wind.speed.k # "none"
            THEN << <<"Wind: ", FmtAny(data.wind.speed), " m/s">> >> ELSE << >>)

\* lines 177-208: the text for a fetched payload, "" when parsing raises
WeatherFormat(city, data) ==
    IF WeatherParseRaises(data) THEN << >>
    ELSE Join(WeatherParts(city, data), <<" ">>)

----------------------------------------------------------------------------
(* Events formatting: _get_events_context, the part after the fetch        *)

EventsCap == 8

EventRaises(ev) ==
    \/ ev.shape # "dict"
    \/ ev.date.k = "bad"
    \/ ev.venue.k = "bad"

\* one bullet (lines 238-252)
EventLine(ev) ==
    LET title == IF ev.title.some THEN ev.title.val ELSE <<"Event">>
        start == ev.date.start_date
        when  == ev.date.when
        venue == ev.venue.name
        link  == ev.link
    IN  <<"- ">> \o title
        \o (IF when # << >> THEN <<" | When: ">> \o when
            ELSE IF start # << >> THEN <<" | Date: ">> \o start ELSE << >>)
        \o (IF venue # << >> THEN <<" | Venue: ">> \o venue ELSE << >>)
        \o (IF link # << >> THEN <<" | Link: ">> \o link ELSE << >>)

\* data.get("events_results") or []
EventsOf(data) == IF data.events_results.k = "list" THEN data.events_results.items ELSE << >>

\* lines 232-253 are outside any try block: what raises there reaches the caller
EventsFormatRaises(data) ==
    \/ data.shape # "dict"
    \/ \E i \in 1..Min(EventsCap, Len(EventsOf(data))) : EventRaises(EventsOf(data)[i])

EventLinesNoCap(data) ==
    [i \in 1..Len(EventsOf(data)) |-> EventLine(EventsOf(data)[i])]

\* lines 236-253: one line per event of events[:8]
EventLines(data) ==
    LET evs == Take(EventsOf(data), EventsCap)
    IN  [i \in 1..Len(evs) |-> EventLine(evs[i])]

\* lines 232-258 for a payload that does not raise
EventsFormat(data) ==
    IF EventsOf(data) = << >> THEN << >>
    ELSE <<"Local events:", "\n">> \o Join(EventLines(data), <<"\n">>)

\* app.py format_events_text: the same bullets, without header, and a
\* sentence in place of an empty list
FormatEventsText(data) ==
    IF EventsOf(data) = << >> THEN <<"No live events found.">>
    ELSE Join(EventLines(data), <<"\n">>)

----------------------------------------------------------------------------
(* Search adapter: _tavily_search, _get_research_context,                  *)
(* _get_forecast_and_places_context                                        *)

\* snippets = [r.get("content", "") for r in res if r.get("content")]
RECURSIVE Snippets(_)
Snippets(items) ==
    IF items = << >> THEN << >>
    ELSE IF OrEmpty(Head(items).content) # << >>
         THEN <<OrEmpty(Head(items).content)>> \o Snippets(Tail(items))
         ELSE Snippets(Tail(items))

\* r.get on an entry that is no dict: the comprehension is outside the try
TavilyRaises(res) ==
    /\ res.k = "list"
    /\ \E i \in 1..Len(res.items) : res.items[i].k # "dict"

\* _tavily_search for an outcome of research_tool.invoke that does not raise
\* past the function
TavilyText(res) ==
    CASE res.k = "exc"  -> << >>
      [] res.k = "list" -> Join(Snippets(res.items), <<"\n\n">>)
      [] res.k = "str"  -> res.text
      [] OTHER          -> << >>

\* search_q = f"{query} in {city}"
ResearchQuery(query, city) == query \o <<" in ">> \o city

ForecastQuery(city) ==
    <<"Short weather forecast for today in ">> \o city
        \o <<" (C) and 8-12 top places to visit today, with a line or two about why they are good.">>

----------------------------------------------------------------------------
(* chat_once: guard and mode wrapping                                      *)

CityPrompt == <<"Before I can help, tell me which city you're planning to visit (for example: 'Jaipur', 'Paris', 'Bangkok').">>

NormCityNoStrip(city) == OrEmpty(city)

\* city = (city or "").strip()
NormCity(city) == Strip(OrEmpty(city))

NormMessageNoStrip(user_message) == user_message

\* msg = user_message.strip()
NormMessage(user_message) == Strip(user_message)

\* lines 320-334, on the stripped city and the stripped message
EffectiveInput(city, msg, mode) ==
    IF mode = "day_plan" THEN
        <<"You are ", "planning a single full day in ">> \o city
            \o <<". ", "User preferences or constraints: ">> \o msg
            \o <<". ", "Create a realistic, enjoyable 1-day plan with clear time blocks.">>
    ELSE IF mode = "multi_day" THEN
        <<"You are ", "planning a multi-day trip in ">> \o city
            \o <<". ", "User description / constraints: ">> \o msg
            \o <<". ", "If the user does not specify days, assume 3-5 days. ",
                 "Create a day-wise itinerary with balanced sightseeing, food, and rest.">>
    ELSE msg

----------------------------------------------------------------------------
(* The orchestrator as a state machine: chat_endpoint -> chat_once         *)

MaxCalls == 2

Sessions == {"A", "B"}
Requests == {"r1", "r2"}
Modes == {"chat", "day_plan", "multi_day"}

\* the city and message values the requests carry
CallCities == {None, Some(<< >>), Some(<<" ">>), Some(<<" ", "Paris">>)}
CallMessages == {<<"museums", " ">>}

\* outcomes of research_tool.invoke: an exception, a list of result dicts, a
\* list with an entry that is no dict, a string, a value of another type
SearchResults ==
    { [k |-> "exc", items |-> << >>, text |-> << >>],
      [k |-> "list", text |-> << >>,
       items |-> << [k |-> "dict", content |-> Some(<<"snippet1">>)],
                    [k |-> "dict", content |-> None],
                    [k |-> "dict", content |-> Some(<<"snippet2">>)] >>],
      [k |-> "list", text |-> << >>, items |-> << [k |-> "other", content |-> None] >>],
      [k |-> "str", items |-> << >>, text |-> <<"snippet1", "\n\n", "snippet2">>],
      [k |-> "other", items |-> << >>, text |-> << >>] }

AbsentMain == [k |-> "absent", temp |-> NoV, feels_like |-> NoV, humidity |-> NoV]
AbsentWind == [k |-> "absent", speed |-> NoV]
AbsentSys == [k |-> "absent", country |-> << >>]

EmptyWeather ==
    [shape |-> "dict", main |-> AbsentMain, weather |-> << >>,
     wind |-> AbsentWind, sys |-> AbsentSys]

\* the payload of the spec's example: 32.0 / 35.0 / 60 / clear sky / 3 / FR
FullWeather ==
    [shape |-> "dict",
     main |-> [k |-> "dict", temp |-> Num(320), feels_like |-> Num(350),
               humidity |-> Num(600)],
     weather |-> << [k |-> "dict", has |-> TRUE, description |-> <<"clear sky">>] >>,
     wind |-> [k |-> "dict", speed |-> Num(30)],
     sys |-> [k |-> "dict", country |-> <<"FR">>]]

\* outcomes of requests.get / raise_for_status / resp.json for the weather
WeatherFetches ==
    { [k |-> "err", data |-> EmptyWeather],
      [k |-> "ok", data |-> FullWeather],
      [k |-> "ok", data |-> [EmptyWeather EXCEPT !.shape = "other"]] }

NoDate == [k |-> "absent", when |-> << >>, start_date |-> << >>]
NoVenue == [k |-> "absent", name |-> << >>]

Concert ==
    [shape |-> "dict", title |-> Some(<<"Concert">>),
     date |-> [k |-> "dict", when |-> <<"Fri 8 PM">>, start_date |-> <<"Oct 3">>],
     venue |-> [k |-> "dict", name |-> <<"Hall">>], link |-> <<"http://e/1">>]

EventsData(items) ==
    [shape |-> "dict", events_results |-> [k |-> "list", items |-> items]]

NoEventsData ==
    [shape |-> "dict", events_results |-> [k |-> "absent", items |-> << >>]]

\* outcomes of requests.get / raise_for_status / resp.json for the events
EventsFetches ==
    { [k |-> "err", data |-> NoEventsData],
      [k |-> "ok", data |-> NoEventsData],
      [k |-> "ok", data |-> EventsData(<<Concert>>)],
      [k |-> "ok", data |-> EventsData(<<[Concert EXCEPT !.date.k = "bad"]>>)] }

\* outcomes of the model call: an AIMessage, a result of another type, an exception
ModelOutcomes == {"ai", "str", "error"}

ModelText(outcome) == IF outcome = "ai" THEN <<"reply">> ELSE <<"str(result)">>

NoCalls == [search |-> 0, weather |-> 0, events |-> 0, model |-> 0]

NoPrompt ==
    [city |-> << >>, mode |-> "", research_context |-> << >>,
     forecast_context |-> << >>, weather_context |-> << >>,
     events_context |-> << >>, history |-> << >>, input |-> << >>]

IdleReq ==
    [pc |-> "idle", session_id |-> "", city_arg |-> None, city |-> << >>,
     user_message |-> << >>, mode |-> "chat",
     use_web |-> FALSE, use_weather |-> FALSE, use_events |-> FALSE,
     effective_input |-> << >>,
     research_context |-> << >>, forecast_context |-> << >>,
     weather_context |-> << >>, events_context |-> << >>,
     prompt |-> NoPrompt, reply |-> << >>, raisedAt |-> "", calls |-> NoCalls]

UserTurn(text) == [role |-> "user", content |-> text]
AssistantTurn(text) == [role |-> "assistant", content |-> text]

\* the stored history of a session; a session never accessed has none
Hist(s) == IF s \in DOMAIN store THEN store[s] ELSE << >>

GetHistoryDropsOthers(st, sid) ==
    [s \in {sid} |-> IF sid \in DOMAIN st THEN st[sid] ELSE << >>]

\* get_history: the session's history is created on first access
GetHistory(st, sid) ==
    IF sid \in DOMAIN st THEN st
    ELSE [s \in DOMAIN st \cup {sid} |-> IF s = sid THEN << >> ELSE st[s]]

\* an exception leaves chat_once: the call ends without a reply
Raise(r, where, calls) ==
    /\ req' = [req EXCEPT ![r].pc = "raised", ![r].raisedAt = where,
                          ![r].calls = calls]
    /\ ended' = [ended EXCEPT ![req[r].session_id] = @ + 1]

\* chat_endpoint receives a request; chat_once lines 311-334
Call(r, sid, city, msg, mode, uw, uwe, uev) ==
    /\ req[r].pc = "idle"
    /\ nCalls < MaxCalls
    /\ nCalls' = nCalls + 1
    /\ LET c == NormCity(city)
           m == NormMessage(msg)
           base == [IdleReq EXCEPT !.session_id = sid, !.city_arg = city,
                                   !.user_message = msg, !.mode = mode,
                                   !.use_web = uw, !.use_weather = uwe,
                                   !.use_events = uev, !.city = c]
       IN  req' = [req EXCEPT ![r] =
                IF c = << >>
                THEN [base EXCEPT !.pc = "done", !.reply = CityPrompt]
                ELSE [base EXCEPT !.pc = "research",
                                  !.effective_input = EffectiveInput(c, m, mode)]]
    /\ UNCHANGED <<store, keys, ended, fn, ui>>

\* chat_chain.research_tool is set by build_chain (line 292)
ResearchToolSet == TRUE

\* _get_research_context / _get_forecast_and_places_context -> _tavily_search:
\* the context `field` is filled and the call moves on to `next`
SearchStep(r, where, field, next) ==
    /\ req[r].pc = where
    /\ \/ /\ ~req[r].use_web \/ ~ResearchToolSet
          /\ req' = [req EXCEPT ![r].pc = next, ![r][field] = << >>]
          /\ UNCHANGED ended
       \/ /\ req[r].use_web /\ ResearchToolSet
          /\ \E res \in SearchResults :
                LET calls == [req[r].calls EXCEPT !.search = @ + 1]
                IN  IF TavilyRaises(res)
                    THEN Raise(r, where, calls)
                    ELSE /\ req' = [req EXCEPT ![r].pc = next,
                                               ![r][field] = TavilyText(res),
                                               ![r].calls = calls]
                         /\ UNCHANGED ended
    /\ UNCHANGED <<store, keys, nCalls, fn, ui>>

\* line 336
Research(r) == SearchStep(r, "research", "research_context", "forecast")

\* line 337
Forecast(r) == SearchStep(r, "forecast", "forecast_context", "weather")

\* line 338: _get_weather_context
Weather(r) ==
    /\ req[r].pc = "weather"
    /\ \/ /\ \/ ~req[r].use_weather
             \/ ~keys.weather
             \/ Strip(req[r].city) = << >>
          /\ req' = [req EXCEPT ![r].pc = "events", ![r].weather_context = << >>]
       \/ /\ req[r].use_weather /\ keys.weather /\ Strip(req[r].city) # << >>
          /\ \E f \in WeatherFetches :
                req' = [req EXCEPT
                    ![r].pc = "events",
                    ![r].calls.weather = @ + 1,
                    ![r].weather_context =
                        IF f.k = "err" THEN << >>
                        ELSE WeatherFormat(Strip(req[r].city), f.data)]
    /\ UNCHANGED <<store, keys, ended, nCalls, fn, ui>>

\* line 339: _get_events_context
Events(r) ==
    /\ req[r].pc = "events"
    /\ \/ /\ ~req[r].use_events \/ ~keys.events
          /\ req' = [req EXCEPT ![r].pc = "invoke", ![r].events_context = << >>]
          /\ UNCHANGED ended
       \/ /\ req[r].use_events /\ keys.events
          /\ \E f \in EventsFetches :
                LET calls == [req[r].calls EXCEPT !.events = @ + 1]
                IN  IF f.k = "err"
                    THEN /\ req' = [req EXCEPT ![r].pc = "invoke",
                                               ![r].events_context = << >>,
                                               ![r].calls = calls]
                         /\ UNCHANGED ended
                    ELSE IF EventsFormatRaises(f.data)
                    THEN Raise(r, "events", calls)
                    ELSE /\ req' = [req EXCEPT ![r].pc = "invoke",
                                               ![r].events_context = EventsFormat(f.data),
                                               ![r].calls = calls]
                         /\ UNCHANGED ended
    /\ UNCHANGED <<store, keys, nCalls, fn, ui>>

\* lines 341-352, entry of RunnableWithMessageHistory.ainvoke: the session's
\* history is fetched (and created) and read into the prompt, the model is called
Invoke(r) ==
    /\ req[r].pc = "invoke"
    /\ store' = GetHistory(store, req[r].session_id)
    /\ req' = [req EXCEPT
            ![r].pc = "await",
            ![r].calls.model = @ + 1,
            ![r].prompt =
                [city |-> req[r].city, mode |-> req[r].mode,
                 research_context |-> req[r].research_context,
                 forecast_context |-> req[r].forecast_context,
                 weather_context |-> req[r].weather_context,
                 events_context |-> req[r].events_context,
                 history |-> Hist(req[r].session_id),
                 input |-> req[r].effective_input]]
    /\ UNCHANGED <<keys, ended, nCalls, fn, ui>>

ModelReturnPrepends(r) ==
    /\ req[r].pc = "await"
    /\ \E o \in ModelOutcomes :
          IF o = "error"
          THEN /\ Raise(r, "model", req[r].calls)
               /\ UNCHANGED store
          ELSE /\ store' = [store EXCEPT ![req[r].session_id] =
                        <<UserTurn(req[r].effective_input),
                          AssistantTurn(ModelText(o))>> \o @]
               /\ req' = [req EXCEPT ![r].pc = "done", ![r].reply = ModelText(o)]
               /\ ended' = [ended EXCEPT ![req[r].session_id] = @ + 1]
    /\ UNCHANGED <<keys, nCalls, fn, ui>>

\* the model call ends: on success the input and the output message are
\* appended to the session's history (lines 284-290) and chat_once returns
\* (lines 354-356); an exception of the model call leaves chat_once
ModelReturn(r) ==
    /\ req[r].pc = "await"
    /\ \E o \in ModelOutcomes :
          IF o = "error"
          THEN /\ Raise(r, "model", req[r].calls)
               /\ UNCHANGED store
          ELSE /\ store' = [store EXCEPT ![req[r].session_id] =
                        @ \o <<UserTurn(req[r].effective_input),
                               AssistantTurn(ModelText(o))>>]
               /\ req' = [req EXCEPT ![r].pc = "done", ![r].reply = ModelText(o)]
               /\ ended' = [ended EXCEPT ![req[r].session_id] = @ + 1]
    /\ UNCHANGED <<keys, nCalls, fn, ui>>

\* chat_endpoint answers (or the exception reaches the framework)
Return(r) ==
    /\ req[r].pc \in {"done", "raised"}
    /\ req' = [req EXCEPT ![r] = IdleReq]
    /\ UNCHANGED <<store, keys, ended, nCalls, fn, ui>>

NoFn == [op |-> "none", city |-> << >>, arg |-> << >>, out |-> << >>, raised |-> FALSE, done |-> FALSE]
NoUiCalls == [weather |-> 0, events |-> 0, model |-> 0]

\* st.session_state after init_state, with what the last run of the script did
NoUi ==
    [messages |-> << >>, city |-> << >>, prompt |-> << >>, calls |-> NoUiCalls,
     raised |-> FALSE, n |-> 0]

Init ==
    /\ store = [s \in {} |-> << >>]
    /\ req = [r \in Requests |-> IdleReq]
    /\ keys \in [weather : BOOLEAN, events : BOOLEAN]
    /\ ended = [s \in Sessions |-> 0]
    /\ nCalls = 0
    /\ fn = NoFn
    /\ ui = NoUi

\* the requests served one at a time
SeqRequests == {"r1"}

Next ==
    \E r \in SeqRequests :
        \/ \E sid \in Sessions, city \in CallCities, msg \in CallMessages,
              mode \in Modes, uw \in BOOLEAN, uwe \in BOOLEAN, uev \in BOOLEAN :
                Call(r, sid, city, msg, mode, uw, uwe, uev)
        \/ Research(r)
        \/ Forecast(r)
        \/ Weather(r)
        \/ Events(r)
        \/ Invoke(r)
        \/ ModelReturn(r)
        \/ Return(r)

Spec == Init /\ [][Next]_vars

----------------------------------------------------------------------------
(* Claims checked under Spec                                               *)

\* a city argument that is None, empty or whitespace only
BlankCity(c) == \A i \in 1..Len(OrEmpty(c)) : OrEmpty(c)[i] \in Whitespace

\* the call of request r has ended: chat_once returned or raised
Ended(r) == req[r].pc \in {"done", "raised"}

\* a chat_once call of session s is between its first adapter and its end
InFlight(s) ==
    \E r \in Requests :
        /\ req[r].session_id = s
        /\ req[r].pc \in {"research", "forecast", "weather", "events", "invoke", "await"}

\* C1: a chat_once call whose city is None, empty or whitespace-only, whatever
\* its mode and toggles, ends at once with the fixed city prompt as reply, has
\* made no search, weather, events or model call, and leaves the session store
\* as it was (no session created, no turn appended).
C1_BlankCityNoEffect ==
    [][\A r \in Requests :
          (req[r].pc = "idle" /\ req'[r].pc # "idle" /\ BlankCity(req'[r].city_arg))
            => /\ req'[r].pc = "done"
               /\ req'[r].reply = CityPrompt
               /\ req'[r].calls = NoCalls
               /\ store' = store]_vars

\* a whitespace-only city with every toggle on, in a session that has history
C1_Witness ==
    \E r \in Requests :
        /\ req[r].pc = "done"
        /\ req[r].city_arg = Some(<<" ">>)
        /\ req[r].mode = "day_plan"
        /\ req[r].use_web /\ req[r].use_weather /\ req[r].use_events
        /\ req[r].reply = CityPrompt
        /\ Hist(req[r].session_id) # << >>

\* the turns of a history alternate user, assistant, user, ...
Alternates(h) ==
    \A i \in 1..Len(h) :
        h[i].role = (IF i % 2 = 1 THEN "user" ELSE "assistant")

\* C2: once N chat_once turns with a city set have ended in a session (none
\* still running), its history holds exactly N user+assistant pairs, in
\* alternation; a session never used has the empty history.
C2_HistoryHoldsNPairs ==
    \A s \in Sessions :
        ~InFlight(s) => /\ Len(Hist(s)) = 2 * ended[s]
                        /\ Alternates(Hist(s))

\* C3: a failure of a context adapter never leaves the adapter: no chat_once
\* call ends with an exception raised in one of the four adapters.
C3_AdapterFailureContained ==
    \A r \in Requests :
        req[r].pc = "raised" =>
            req[r].raisedAt \notin {"research", "forecast", "weather", "events"}

\* C4: chat_once never raises: every call that ends, ends with a reply.
C4_NeverRaises ==
    \A r \in Requests : Ended(r) => req[r].pc = "done"

\* C5: in an ended turn with a city set, an adapter whose flag is off or whose
\* key is absent has the empty context and made no outbound call, and the
\* turn made the model call.
C5_DisabledAdapterTurnProceeds ==
    \A r \in Requests :
        (Ended(r) /\ req[r].city # << >>) =>
            /\ ~req[r].use_web =>
                    /\ req[r].research_context = << >>
                    /\ req[r].forecast_context = << >>
                    /\ req[r].calls.search = 0
                    /\ req[r].calls.model = 1
            /\ (~req[r].use_weather \/ ~keys.weather) =>
                    /\ req[r].weather_context = << >>
                    /\ req[r].calls.weather = 0
                    /\ req[r].calls.model = 1
            /\ (~req[r].use_events \/ ~keys.events) =>
                    /\ req[r].events_context = << >>
                    /\ req[r].calls.events = 0
                    /\ req[r].calls.model = 1

\* C7: every ended turn with a city set has called the model exactly once,
\* with the session's prior history and the effective instruction in the
\* prompt; a turn that returned has appended the effective instruction and
\* the reply, in this order, to that history.
C7_OneModelCallPerTurn ==
    \A r \in Requests :
        (Ended(r) /\ req[r].city # << >>) =>
            /\ req[r].calls.model = 1
            /\ req[r].prompt.input = req[r].effective_input
            /\ req[r].pc = "done" =>
                    Hist(req[r].session_id) =
                        req[r].prompt.history
                            \o <<UserTurn(req[r].effective_input),
                                 AssistantTurn(req[r].reply)>>

----------------------------------------------------------------------------
(* Mode wrapping on its own: chat_once lines 311-334 over a wider set of   *)
(* cities and messages                                                     *)

MaxMsgLen == 2

MsgTokens == {" ", "budget", "walking"}

RECURSIVE TextsUpTo(_)
TextsUpTo(n) ==
    IF n = 0 THEN {<< >>}
    ELSE TextsUpTo(n - 1)
            \cup {Append(t, c) : t \in {u \in TextsUpTo(n - 1) : Len(u) = n - 1},
                                 c \in MsgTokens}

ModeMessages == TextsUpTo(MaxMsgLen)

ModeCities ==
    {None, Some(<< >>), Some(<<" ">>), Some(<<"Paris">>),
     Some(<<" ", "Paris", " ">>), Some(<<"New", " ", "York">>)}

NextMode ==
    \E r \in SeqRequests, sid \in Sessions, city \in ModeCities,
       msg \in ModeMessages, mode \in Modes,
       uw \in BOOLEAN, uwe \in BOOLEAN, uev \in BOOLEAN :
        Call(r, sid, city, msg, mode, uw, uwe, uev)

\* the provider keys play no part in the wrapping
InitMode == Init /\ keys = [weather |-> TRUE, events |-> TRUE]

SpecMode == InitMode /\ [][NextMode]_vars

\* t is s without its leading and trailing whitespace tokens
StrippedOf(t, s) ==
    \E i \in 0..Len(s), j \in 0..Len(s) :
        /\ i + j <= Len(s)
        /\ t = SubSeq(s, i + 1, Len(s) - j)
        /\ \A k \in 1..i : s[k] \in Whitespace
        /\ \A k \in (Len(s) - j + 1)..Len(s) : s[k] \in Whitespace
        /\ t # << >> => (t[1] \notin Whitespace /\ t[Len(t)] \notin Whitespace)

\* the one text that is s stripped, found among the runs of s
TheStripped(s) ==
    CHOOSE t \in {SubSeq(s, a, b) : a \in 1..(Len(s) + 1), b \in 0..Len(s)} :
        StrippedOf(t, s)

\* the request r has a city set and its effective instruction is built
Wrapped(r) == req[r].pc # "idle" /\ ~BlankCity(req[r].city_arg)

\* C6 as stated: the effective instruction is the user message unchanged in
\* mode chat, and holds the plan phrase with the city and the literal message
\* text in the two plan modes.
C6_MessageUnchanged ==
    \A r \in Requests :
        Wrapped(r) =>
            LET e == req[r].effective_input
                c == TheStripped(OrEmpty(req[r].city_arg))
                m == req[r].user_message
            IN  CASE req[r].mode = "chat" -> e = m
                  [] req[r].mode = "day_plan" ->
                        /\ Contains(e, <<"planning a single full day in ">> \o c)
                        /\ Contains(e, m)
                  [] req[r].mode = "multi_day" ->
                        /\ Contains(e, <<"planning a multi-day trip in ">> \o c)
                        /\ Contains(e, m)
                        /\ Contains(e, <<"If the user does not specify days, assume 3-5 days. ">>)

\* C6, amended: the effective instruction is fixed by (city, message, mode)
\* alone, whatever the session and the toggles: in mode chat it is the message
\* stripped of leading and trailing whitespace; in mode day_plan it holds
\* "planning a single full day in" with the stripped city and then the
\* stripped message; in mode multi_day it holds "planning a multi-day trip in"
\* with the stripped city, the stripped message and the 3-5 day default.
C6_StrippedMessageWrapped ==
    \A r \in Requests :
        Wrapped(r) =>
            LET e == req[r].effective_input
                c == TheStripped(OrEmpty(req[r].city_arg))
                m == TheStripped(req[r].user_message)
            IN  CASE req[r].mode = "chat" -> e = m
                  [] req[r].mode = "day_plan" ->
                        /\ Contains(e, <<"planning a single full day in ">> \o c \o <<". ">>)
                        /\ Contains(e, <<"User preferences or constraints: ">> \o m \o <<". ">>)
                  [] req[r].mode = "multi_day" ->
                        /\ Contains(e, <<"planning a multi-day trip in ">> \o c \o <<". ">>)
                        /\ Contains(e, <<"User description / constraints: ">> \o m \o <<". ">>)
                        /\ Contains(e, <<"If the user does not specify days, assume 3-5 days. ">>)

\* a day plan for " Paris " whose message ends in whitespace
C6_Witness ==
    \E r \in Requests :
        /\ req[r].pc = "research"
        /\ req[r].mode = "day_plan"
        /\ req[r].city_arg = Some(<<" ", "Paris", " ">>)
        /\ req[r].user_message = <<"budget", " ">>
        /\ Contains(req[r].effective_input, <<"planning a single full day in ", "Paris", ". ">>)

----------------------------------------------------------------------------
(* Weather formatting on its own: _get_weather_context lines 177-208 over  *)
(* the payloads a fetch can return                                         *)

TempVals == {NoV, Num(320), Num(-5), StrV}
FeelsVals == {NoV, Num(350), StrV}
HumidityVals == {NoV, Num(600)}

MainVals ==
    {AbsentMain, [AbsentMain EXCEPT !.k = "bad"]}
        \cup {[k |-> "dict", temp |-> t, feels_like |-> f, humidity |-> h] :
                t \in TempVals, f \in FeelsVals, h \in HumidityVals}

WeatherEntry(desc) == [k |-> "dict", has |-> TRUE, description |-> desc]

WeatherLists ==
    { << >>,
      <<WeatherEntry(<<"clear sky">>)>>,
      <<WeatherEntry(<< >>)>>,
      <<WeatherEntry(<<"rain">>), WeatherEntry(<<"fog">>)>>,
      <<[k |-> "dict", has |-> FALSE, description |-> << >>]>>,
      <<[k |-> "other", has |-> FALSE, description |-> << >>]>> }

WindVals ==
    {AbsentWind, [AbsentWind EXCEPT !.k = "bad"],
     [k |-> "dict", speed |-> NoV], [k |-> "dict", speed |-> Num(30)],
     [k |-> "dict", speed |-> Num(35)]}

SysVals ==
    {AbsentSys, [AbsentSys EXCEPT !.k = "bad"],
     [k |-> "dict", country |-> << >>], [k |-> "dict", country |-> <<"FR">>]}

WeatherPayloads ==
    {[EmptyWeather EXCEPT !.shape = "other"]}
        \cup {[shape |-> "dict", main |-> m, weather |-> w, wind |-> v, sys |-> y] :
                m \in MainVals, w \in WeatherLists, v \in WindVals, y \in SysVals}

InitWeather ==
    /\ store = [s \in {} |-> << >>]
    /\ req = [r \in Requests |-> IdleReq]
    /\ keys = [weather |-> TRUE, events |-> TRUE]
    /\ ended = [s \in Sessions |-> 0]
    /\ nCalls = 0
    /\ ui = NoUi
    /\ fn \in {[op |-> "weather", city |-> <<"Paris">>, arg |-> d, out |-> << >>,
                 raised |-> FALSE, done |-> FALSE] : d \in WeatherPayloads}

\* the fetched payload is formatted
FormatWeather ==
    /\ fn.op = "weather"
    /\ ~fn.done
    /\ fn' = [fn EXCEPT !.out = WeatherFormat(fn.city, fn.arg), !.done = TRUE]
    /\ UNCHANGED <<store, req, keys, ended, nCalls, ui>>

SpecWeather == InitWeather /\ [][FormatWeather]_vars

HasTok(text, tok) == \E i \in 1..Len(text) : text[i] = tok

\* the tokens of `marks` that occur in text occur once each, in the order of `marks`
InOrder(text, marks) ==
    \A a, b \in 1..Len(marks) :
        a < b =>
            \A i, j \in 1..Len(text) :
                (text[i] = marks[a] /\ text[j] = marks[b]) => i < j

WeatherMarks == <<"Current temperature in ", "Conditions: ", "Humidity: ", "Wind: ">>

\* what the payload holds
TempPresent(d) == d.main.k = "dict" /\ d.main.temp.k # "none"
FeelsPresent(d) == d.main.k = "dict" /\ d.main.feels_like.k # "none"
HumidityPresent(d) == d.main.k = "dict" /\ d.main.humidity.k # "none"
DescPresent(d) == d.weather # << >> /\ d.weather[1].description # << >>
WindPresent(d) == d.wind.k = "dict" /\ d.wind.speed.k # "none"

\* a payload the formatting can read: a dict whose main, wind and sys are
\* dicts or absent, whose temp and feels_like, when both present, are numbers
\* and whose first weather entry is a dict with a description
WellShaped(d) ==
    /\ d.shape = "dict"
    /\ d.main.k # "bad" /\ d.wind.k # "bad" /\ d.sys.k # "bad"
    /\ (d.main.temp.k # "none" /\ d.main.feels_like.k # "none") =>
            (d.main.temp.k = "num" /\ d.main.feels_like.k = "num")
    /\ d.weather # << >> => (d.weather[1].k = "dict" /\ d.weather[1].has)

\* C8 as stated, on payloads of the documented shape: the clauses come in the
\* fixed order, every field the payload holds appears and no absent one
\* does, and a payload without main gives the empty context.
C8_OmitsExactlyAbsentFields ==
    (fn.op = "weather" /\ fn.done /\ WellShaped(fn.arg)) =>
        /\ InOrder(fn.out, WeatherMarks)
        /\ HasTok(fn.out, "Current temperature in ") <=> TempPresent(fn.arg)
        /\ HasTok(fn.out, "Current temperature in ") <=> FeelsPresent(fn.arg)
        /\ HasTok(fn.out, "Conditions: ") <=> DescPresent(fn.arg)
        /\ HasTok(fn.out, "Humidity: ") <=> HumidityPresent(fn.arg)
        /\ HasTok(fn.out, "Wind: ") <=> WindPresent(fn.arg)
        /\ fn.arg.main.k = "absent" => fn.out = << >>

\* C8, amended: the clauses come in the fixed order temperature+feels-like,
\* conditions, humidity, wind; the temperature clause appears exactly when
\* temp and feels_like are both present, the conditions clause when the first
\* weather entry has a non-empty description, the humidity and the wind
\* clause when their field is present, so no absent field appears; the
\* formatting never raises: a payload it cannot read (a non-dict where a dict
\* is expected, a first weather entry without description, temp and
\* feels_like present but not numbers) gives the empty context, and a payload without main gives a context
\* without temperature and humidity clause, empty when description and wind
\* speed are absent as well.
C8_WeatherClauses ==
    (fn.op = "weather" /\ fn.done) =>
        IF ~WellShaped(fn.arg) THEN fn.out = << >>
        ELSE
            /\ InOrder(fn.out, WeatherMarks)
            /\ HasTok(fn.out, "Current temperature in ")
                    <=> (TempPresent(fn.arg) /\ FeelsPresent(fn.arg))
            /\ HasTok(fn.out, "Current temperature in ") =>
                    Contains(fn.out, <<": ", Fmt1(fn.arg.main.temp.v), "*C (feels like ",
                                       Fmt1(fn.arg.main.feels_like.v), "*C).">>)
            /\ HasTok(fn.out, "Conditions: ") <=> DescPresent(fn.arg)
            /\ HasTok(fn.out, "Humidity: ") <=> HumidityPresent(fn.arg)
            /\ HasTok(fn.out, "Wind: ") <=> WindPresent(fn.arg)
            /\ fn.arg.main.k = "absent" =>
                    /\ ~HasTok(fn.out, "Current temperature in ")
                    /\ ~HasTok(fn.out, "Humidity: ")
                    /\ (fn.out = << >>) <=> (~DescPresent(fn.arg) /\ ~WindPresent(fn.arg))

\* the payload of the spec's example, formatted for Paris
C8_Witness ==
    /\ fn.op = "weather" /\ fn.done
    /\ fn.arg = [FullWeather EXCEPT !.main.temp = Num(320)]
    /\ fn.out = <<"Current temperature in ", "Paris", ", ", "FR", ": ", "32.0",
                   "*C (feels like ", "35.0", "*C).", " ", "Conditions: ",
                   "clear sky", ".", " ", "Humidity: ", "60", "%", " ",
                   "Wind: ", "3", " m/s">>

----------------------------------------------------------------------------
(* Events formatting on its own: _get_events_context lines 232-258 and     *)
(* format_events_text of app.py, over the lists a fetch can return         *)

MaxEvents == 9

\* the i-th event of a result list, in one of the shapes a provider sends:
\* every field; when only; start date and venue; no date, link only; empty
\* date and venue; no title; a date that is no dict
EventShapes == <<"full", "when", "start", "link", "bare", "untitled">>

EventOfShape(shape, i) ==
    LET n == ToString(i)
        title == Some(<<"Title", n>>)
        when == <<"when", n>>
        start == <<"start", n>>
        venue == [k |-> "dict", name |-> <<"venue", n>>]
        link == <<"http://e/", n>>
    IN  CASE shape = "full" ->
                [shape |-> "dict", title |-> title,
                 date |-> [k |-> "dict", when |-> when, start_date |-> start],
                 venue |-> venue, link |-> link]
          [] shape = "when" ->
                [shape |-> "dict", title |-> title,
                 date |-> [k |-> "dict", when |-> when, start_date |-> << >>],
                 venue |-> NoVenue, link |-> << >>]
          [] shape = "start" ->
                [shape |-> "dict", title |-> title,
                 date |-> [k |-> "dict", when |-> << >>, start_date |-> start],
                 venue |-> venue, link |-> << >>]
          [] shape = "link" ->
                [shape |-> "dict", title |-> title, date |-> NoDate,
                 venue |-> NoVenue, link |-> link]
          [] shape = "bare" ->
                [shape |-> "dict", title |-> title,
                 date |-> [k |-> "dict", when |-> << >>, start_date |-> << >>],
                 venue |-> [k |-> "dict", name |-> << >>], link |-> << >>]
          [] shape = "untitled" ->
                [shape |-> "dict", title |-> None,
                 date |-> [k |-> "dict", when |-> when, start_date |-> start],
                 venue |-> NoVenue, link |-> link]
          [] OTHER ->
                [shape |-> "dict", title |-> title,
                 date |-> [k |-> "bad", when |-> << >>, start_date |-> << >>],
                 venue |-> venue, link |-> link]

\* n events whose shapes cycle from offset off; the event at position bad
\* (if any) has a date that is no dict
EventList(n, off, bad) ==
    [i \in 1..n |->
        IF i = bad THEN EventOfShape("baddate", i)
        ELSE EventOfShape(EventShapes[((i + off) % Len(EventShapes)) + 1], i)]

EventsPayloads ==
    {NoEventsData, [NoEventsData EXCEPT !.shape = "other"]}
        \cup {EventsData(EventList(n, off, bad)) :
                n \in 0..MaxEvents, off \in 0..(Len(EventShapes) - 1),
                bad \in 0..MaxEvents}

InitEvents ==
    /\ store = [s \in {} |-> << >>]
    /\ req = [r \in Requests |-> IdleReq]
    /\ keys = [weather |-> TRUE, events |-> TRUE]
    /\ ended = [s \in Sessions |-> 0]
    /\ nCalls = 0
    /\ ui = NoUi
    /\ fn \in {[op |-> o, city |-> <<"Paris">>, arg |-> d, out |-> << >>,
                 raised |-> FALSE, done |-> FALSE] :
                    o \in {"events", "events_ui"}, d \in EventsPayloads}

\* the fetched payload is formatted by _get_events_context
FormatEvents ==
    /\ fn.op = "events"
    /\ ~fn.done
    /\ fn' = IF EventsFormatRaises(fn.arg)
             THEN [fn EXCEPT !.raised = TRUE, !.done = TRUE]
             ELSE [fn EXCEPT !.out = EventsFormat(fn.arg), !.done = TRUE]
    /\ UNCHANGED <<store, req, keys, ended, nCalls, ui>>

\* the fetched list is formatted by format_events_text (app.py)
FormatEventsUi ==
    /\ fn.op = "events_ui"
    /\ ~fn.done
    /\ fn' = IF EventsFormatRaises(fn.arg)
             THEN [fn EXCEPT !.raised = TRUE, !.done = TRUE]
             ELSE [fn EXCEPT !.out = FormatEventsText(fn.arg), !.done = TRUE]
    /\ UNCHANGED <<store, req, keys, ended, nCalls, ui>>

NextEvents == FormatEvents \/ FormatEventsUi

SpecEvents == InitEvents /\ [][NextEvents]_vars

\* text.split(sep), on tokens
RECURSIVE Split(_, _)
Split(text, sep) ==
    IF ~HasTok(text, sep) THEN <<text>>
    ELSE LET i == CHOOSE k \in 1..Len(text) :
                    text[k] = sep /\ \A l \in 1..(k - 1) : text[l] # sep
         IN  <<SubSeq(text, 1, i - 1)>> \o Split(SubSeq(text, i + 1, Len(text)), sep)

\* the events the provider returned
Returned(d) == IF d.events_results.k = "list" THEN d.events_results.items ELSE << >>

\* the first 8 events are of the documented shape: dicts whose date and venue
\* are dicts or absent
DocumentedShape(d) ==
    /\ d.shape = "dict"
    /\ \A i \in 1..Len(Returned(d)) :
          i <= 8 => /\ Returned(d)[i].shape = "dict"
                    /\ Returned(d)[i].date.k # "bad"
                    /\ Returned(d)[i].venue.k # "bad"

\* line is the bullet of event ev
BulletOf(line, ev) ==
    /\ line # << >> /\ line[1] = "- "
    /\ Contains(line, <<"- ">> \o (IF ev.title.some THEN ev.title.val ELSE <<"Event">>))
    /\ IF ev.date.when # << >>
       THEN Contains(line, <<" | When: ">> \o ev.date.when) /\ ~HasTok(line, " | Date: ")
       ELSE /\ ~HasTok(line, " | When: ")
            /\ IF ev.date.start_date # << >>
               THEN Contains(line, <<" | Date: ">> \o ev.date.start_date)
               ELSE ~HasTok(line, " | Date: ")
    /\ IF ev.venue.name # << >>
       THEN Contains(line, <<" | Venue: ">> \o ev.venue.name)
       ELSE ~HasTok(line, " | Venue: ")
    /\ IF ev.link # << >>
       THEN Contains(line, <<" | Link: ">> \o ev.link)
       ELSE ~HasTok(line, " | Link: ")
    /\ InOrder(line, <<"- ", " | When: ", " | Venue: ", " | Link: ">>)
    /\ InOrder(line, <<"- ", " | Date: ", " | Venue: ", " | Link: ">>)

\* C9: for n returned events of the documented shape the formatting gives
\* one bullet per event for the first min(8, n) events, in provider order and
\* never more than 8; a bullet carries the when string when present, the
\* start date only when when is absent, and no venue or link clause when
\* these are absent; in _get_events_context an empty result list gives the
\* empty string (format_events_text of the UI gives the same bullets).
C9_EventBullets ==
    (fn.op \in {"events", "events_ui"} /\ fn.done /\ DocumentedShape(fn.arg)) =>
        LET evs == Returned(fn.arg)
            m == IF Len(evs) < 8 THEN Len(evs) ELSE 8
            lines == Split(fn.out, "\n")
            bullets == IF fn.op = "events" THEN Tail(lines) ELSE lines
        IN  /\ ~fn.raised
            /\ (fn.op = "events" /\ evs = << >>) => fn.out = << >>
            /\ evs # << >> =>
                    /\ fn.op = "events" => lines[1] = <<"Local events:">>
                    /\ Len(bullets) = m
                    /\ Len(bullets) <= 8
                    /\ \A j \in 1..m : BulletOf(bullets[j], evs[j])

\* nine events returned, eight bullets out, the ninth event dropped
C9_Witness ==
    /\ fn.op = "events" /\ fn.done /\ ~fn.raised
    /\ Len(Returned(fn.arg)) = 9
    /\ Len(Split(fn.out, "\n")) = 9
    /\ Returned(fn.arg)[1].date.when # << >>
    /\ Returned(fn.arg)[1].date.start_date # << >>
    /\ Returned(fn.arg)[2].venue.name = << >>
    /\ ~HasTok(fn.out, "9")

----------------------------------------------------------------------------
(* The Streamlit flow: one run of main() of app.py per submission          *)

MaxSubmits == 3

Intro ==
    <<"Hi, I am your travel guide.", "\n", "\n",
      "First, tell me which city you are planning to visit.">>

\* what the user types into st.chat_input; an empty submission runs nothing
UiInputs == {<<" ">>, <<"Paris">>, <<" ", "Rome", " ">>}

\* get_weather_raw: None without a key or when the fetch fails
GetWeatherRaw(haveKey, w) ==
    IF haveKey /\ w.k = "ok" THEN Some(w.data) ELSE None

\* format_weather_text
FormatWeatherText(city, raw) ==
    IF ~raw.some THEN <<"No live weather data available.">>
    ELSE IF WeatherParseRaises(raw.val) \/ WeatherParts(city, raw.val) = << >>
         THEN <<"Weather data could not be parsed.">>
         ELSE Join(WeatherParts(city, raw.val), <<" ">>)

\* get_local_events: [] without a key or when the fetch fails
GetLocalEvents(haveKey, e) ==
    IF haveKey /\ e.k = "ok" THEN e.data ELSE NoEventsData

\* build_llm_input: the history block
HistoryLines(history) ==
    [i \in 1..Len(history) |->
        (IF history[i].role = "user" THEN <<"User: ">> ELSE <<"Assistant: ">>)
            \o history[i].content]

\* build_llm_input
BuildLlmInput(city, mode, weather_text, events_text, history, user_message) ==
    Strip(<<"\n", "SYSTEM INSTRUCTIONS:", "\n", "SYSTEM_INSTRUCTIONS", "\n", "\n",
            "CITY:", "\n">> \o city
          \o <<"\n", "\n", "MODE:", "\n", mode, "\n", "\n", "WEATHER CONTEXT:", "\n">>
          \o weather_text
          \o <<"\n", "\n", "EVENTS CONTEXT:", "\n">> \o events_text
          \o <<"\n", "\n", "CONVERSATION HISTORY:", "\n">>
          \o (IF history = << >> THEN <<"No previous messages.">>
              ELSE Join(HistoryLines(history), <<"\n">>))
          \o <<"\n", "\n", "USER QUERY:", "\n">> \o user_message
          \o <<"\n", "\n",
               "Now answer as the travel guide, following the rules above.", "\n">>)

\* outcomes of call_gemini: the text of the first part, str(resp) when the
\* response has no such part, an exception of generate_content
GeminiOutcomes == {"text", "fallback", "error"}

GeminiText(outcome) == IF outcome = "text" THEN <<"reply">> ELSE <<"str(resp)">>

\* lines 318-321
ConfirmReply(city_name) ==
    <<"Great, we will plan for **">> \o city_name
        \o <<"**.", "\n", "\n",
             "Now you can ask anything about this city, or choose 1-day / multi-day mode in the sidebar and ask for an itinerary.">>

InitUI ==
    /\ store = [s \in {} |-> << >>]
    /\ req = [r \in Requests |-> IdleReq]
    /\ keys \in [weather : BOOLEAN, events : BOOLEAN]
    /\ ended = [s \in Sessions |-> 0]
    /\ nCalls = 0
    /\ fn = NoFn
    /\ ui = [NoUi EXCEPT !.messages = <<AssistantTurn(Intro)>>]

\* one run of the script with a submission (lines 308-351)
Submit(user_input, mode_value, use_weather, use_events, w, e, outcome) ==
    LET shown == Append(ui.messages, UserTurn(user_input))
    IN  /\ ui.n < MaxSubmits
        /\ user_input # << >>
        /\ IF ui.city = << >>
           THEN LET city_name == Strip(user_input)
                IN  ui' = [messages |-> Append(shown, AssistantTurn(ConfirmReply(city_name))),
                           city |-> city_name, prompt |-> << >>,
                           calls |-> NoUiCalls, raised |-> FALSE, n |-> ui.n + 1]
           ELSE LET city == ui.city
                    weather_text ==
                        IF use_weather
                        THEN FormatWeatherText(city, GetWeatherRaw(keys.weather, w))
                        ELSE <<"Live weather disabled.">>
                    events_data == GetLocalEvents(keys.events, e)
                    eventsRaise == use_events /\ EventsFormatRaises(events_data)
                    events_text ==
                        IF use_events THEN FormatEventsText(events_data)
                        ELSE <<"Events lookup disabled.">>
                    prompt_text ==
                        BuildLlmInput(city, mode_value, weather_text, events_text,
                                      SubSeq(shown, 1, Len(shown) - 1), user_input)
                    fetched ==
                        [weather |-> IF use_weather /\ keys.weather THEN 1 ELSE 0,
                         events |-> IF use_events /\ keys.events THEN 1 ELSE 0,
                         model |-> IF eventsRaise THEN 0 ELSE 1]
                IN  IF eventsRaise
                    THEN ui' = [ui EXCEPT !.messages = shown, !.prompt = << >>,
                                          !.calls = fetched, !.raised = TRUE,
                                          !.n = ui.n + 1]
                    ELSE IF outcome = "error"
                    THEN ui' = [ui EXCEPT !.messages = shown, !.prompt = prompt_text,
                                          !.calls = fetched, !.raised = TRUE,
                                          !.n = ui.n + 1]
                    ELSE ui' = [ui EXCEPT
                                  !.messages = Append(shown, AssistantTurn(GeminiText(outcome))),
                                  !.prompt = prompt_text, !.calls = fetched,
                                  !.raised = FALSE, !.n = ui.n + 1]
        /\ UNCHANGED <<store, req, keys, ended, nCalls, fn>>

\* the fetches are drawn only where the run makes them
NextUI ==
    \E user_input \in UiInputs, mode_value \in Modes,
       use_weather \in BOOLEAN, use_events \in BOOLEAN,
       outcome \in GeminiOutcomes :
        \E w \in IF ui.city # << >> /\ use_weather /\ keys.weather
                  THEN WeatherFetches ELSE {[k |-> "err", data |-> EmptyWeather]},
           e \in IF ui.city # << >> /\ use_events /\ keys.events
                  THEN EventsFetches ELSE {[k |-> "err", data |-> NoEventsData]} :
            Submit(user_input, mode_value, use_weather, use_events, w, e, outcome)

SpecUI == InitUI /\ [][NextUI]_vars

\* the user messages of the transcript, in order
UserMessages == SelectSeq(ui.messages, LAMBDA m : m.role = "user")

\* the city a prompt plans for
PlannedFor(prompt, city) ==
    Contains(prompt, <<"CITY:", "\n">> \o city \o <<"\n", "\n", "MODE:">>)

\* C10: the city of a session is set at most once, from the first user
\* message, and is immutable thereafter: whenever the city is non-empty it is
\* the (stripped) first user message, no later submission changes it, and
\* every turn is planned for it.
C10_CityFromFirstMessage ==
    /\ [](ui.city # << >> =>
            /\ UserMessages # << >>
            /\ ui.city = Strip(UserMessages[1].content)
            /\ ui.prompt # << >> => PlannedFor(ui.prompt, Strip(UserMessages[1].content)))
    /\ [][ui.city # << >> => ui'.city = ui.city]_vars

\* the last two messages of the transcript are a user message and then an
\* assistant message, appended to the transcript `before`
AppendsPair(before, after) ==
    /\ Len(after) = Len(before) + 2
    /\ SubSeq(after, 1, Len(before)) = before
    /\ after[Len(after) - 1].role = "user"
    /\ after[Len(after)].role = "assistant"

\* C11: the presentation layer follows a two-phase flow: while the city is
\* unset a submission is consumed as the city name, gets the confirmation
\* reply and makes no provider call and no model call; once the city is set
\* a submission is a full turn for that city with contexts per the toggles
\* (a provider is called only when its context is not the disabled text) and
\* exactly one model call; in both phases the submission appends exactly one
\* user message and then one assistant message to the transcript.
C11_TwoPhaseFlow ==
    [][ui'.n = ui.n + 1 =>
        /\ AppendsPair(ui.messages, ui'.messages)
        /\ ui.city = << >> =>
              /\ ui'.city = Strip(ui'.messages[Len(ui'.messages) - 1].content)
              /\ ui'.messages[Len(ui'.messages)].content = ConfirmReply(ui'.city)
              /\ ui'.calls = NoUiCalls
              /\ ui'.prompt = << >>
        /\ ui.city # << >> =>
              /\ ui'.city = ui.city
              /\ ui'.calls.model = 1
              /\ PlannedFor(ui'.prompt, ui.city)
              /\ ui'.calls.weather = 1 => ~HasTok(ui'.prompt, "Live weather disabled.")
              /\ ui'.calls.events = 1 => ~HasTok(ui'.prompt, "Events lookup disabled.")
      ]_vars

----------------------------------------------------------------------------
(* Overlapping requests: chat_endpoint and chat_once are coroutines of one  *)
(* event loop.  The adapters are plain calls, so a turn keeps the loop from *)
(* its start to the await of chat_chain.ainvoke (line 341); the history is  *)
(* read when ainvoke starts and appended when the model call has ended.     *)

\* the call of request r holds the event loop
OnLoop(r) == req[r].pc \in {"research", "forecast", "weather", "events", "invoke"}

LoopFree == \A r \in Requests : ~OnLoop(r)

\* the requests are named by arrival: r1 is the first to arrive, r2 the second
Arrives(r) == nCalls < 2 => r = (IF nCalls = 0 THEN "r1" ELSE "r2")

\* the toggles the overlapping requests carry: (use_web, use_weather, use_events)
OverlapToggles == {<<FALSE, FALSE, FALSE>>, <<FALSE, FALSE, TRUE>>}

NextOverlap ==
    \E r \in Requests :
        \/ /\ LoopFree
           /\ Arrives(r)
           /\ \E sid \in Sessions, city \in CallCities, msg \in CallMessages,
                 mode \in Modes, t \in OverlapToggles :
                    Call(r, sid, city, msg, mode, t[1], t[2], t[3])
        \/ Research(r)
        \/ Forecast(r)
        \/ Weather(r)
        \/ Events(r)
        \/ Invoke(r)
        \/ LoopFree /\ ModelReturn(r)
        \/ LoopFree /\ Return(r)

SpecOverlap == InitMode /\ [][NextOverlap]_vars

\* the pair of messages the turn of request r stores
Pair(r) == <<UserTurn(req[r].effective_input), AssistantTurn(req[r].reply)>>

\* h is an initial part of g
IsPrefix(h, g) == Len(h) <= Len(g) /\ SubSeq(g, 1, Len(h)) = h

\* C12: the history store is unsynchronized, so two overlapping turns of one
\* session race: while both await their model call, neither has appended, and
\* each prompt holds an initial part of the stored history, so neither prompt
\* has the other turn's messages; and each turn's pair is appended at the end
\* of the stored history when its own model call completes, whatever the
\* arrival order.
C12_OverlappingTurnsRace ==
    /\ [](\A a, b \in Requests :
            (/\ a # b
             /\ req[a].pc = "await" /\ req[b].pc = "await"
             /\ req[a].session_id = req[b].session_id) =>
                /\ IsPrefix(req[a].prompt.history, Hist(req[a].session_id))
                /\ IsPrefix(req[b].prompt.history, Hist(req[a].session_id)))
    /\ [][\A r \in Requests :
            (req[r].pc = "await" /\ req'[r].pc = "done") =>
                store'[req[r].session_id] =
                    store[req[r].session_id]
                        \o <<UserTurn(req[r].effective_input),
                              AssistantTurn(req'[r].reply)>>]_vars

\* r1 arrived before r2 in session A, both read the empty history, r2's model
\* call completed first: r2's pair is stored before r1's, and neither prompt
\* had the other turn's messages
C12_Witness ==
    /\ nCalls = 2
    /\ req["r1"].pc = "done" /\ req["r2"].pc = "done"
    /\ req["r1"].session_id = "A" /\ req["r2"].session_id = "A"
    /\ req["r1"].mode = "chat" /\ req["r2"].mode = "day_plan"
    /\ req["r1"].calls.model = 1 /\ req["r2"].calls.model = 1
    /\ req["r1"].prompt.history = << >>
    /\ req["r2"].prompt.history = << >>
    /\ Hist("A") = Pair("r2") \o Pair("r1")

\* C13: sessions are isolated: the history a turn of session A puts into its
\* prompt is A's stored history as of the read; a step that changes the store
\* is a step of one turn and changes only the history of that turn's session
\* (every other session's stored history and presence are unchanged), also
\* when turns of A and B interleave; and a session's history, once created,
\* stays in the store and only grows.
C13_SessionsIsolated ==
    /\ [](\A r \in Requests :
            req[r].pc \in {"await", "done", "raised"} /\ req[r].calls.model = 1 =>
                /\ req[r].session_id \in DOMAIN store
                /\ IsPrefix(req[r].prompt.history, store[req[r].session_id]))
    /\ [][/\ \A r \in Requests :
              (req[r].pc = "invoke" /\ req'[r].pc = "await") =>
                  req'[r].prompt.history = Hist(req[r].session_id)
          /\ \A s \in DOMAIN store :
                s \in DOMAIN store' /\ IsPrefix(store[s], store'[s])
          /\ store' # store =>
                \E r \in Requests :
                    /\ req'[r] # req[r]
                    /\ req[r].pc \in {"invoke", "await"}
                    /\ \A s \in Sessions :
                          s # req[r].session_id =>
                              /\ Hist(s)' = Hist(s)
                              /\ (s \in DOMAIN store') = (s \in DOMAIN store)
        ]_vars

\* turns of A and B interleave: r1 (session A) arrived first and still awaits
\* its model call with A's empty history in its prompt, while r2 (session B)
\* has completed and stored its pair in B's history only
C13_Witness ==
    /\ nCalls = 2
    /\ req["r1"].pc = "await" /\ req["r1"].session_id = "A"
    /\ req["r2"].pc = "done" /\ req["r2"].session_id = "B"
    /\ req["r2"].calls.model = 1
    /\ "A" \in DOMAIN store /\ store["A"] = << >>
    /\ req["r1"].prompt.history = << >>
    /\ Hist("B") = Pair("r2")

====
